---- MODULE Spec2Model ----
(***************************************************************************)
(* minacalc-overlay: the polling loop of src/main.rs.  Every tick the      *)
(* process pulls the /json/v2 snapshot, resolves the playback rate, pulls  *)
(* the current .osu file, skips the tick when (sha1, rate_str) is the key  *)
(* it stored last, and otherwise computes the skillset scores and writes   *)
(* msd.json.                                                               *)
(*                                                                         *)
(* Rates are f32 in the program; here a rate is an integer number of       *)
(* thousandths (1500 is 1.5).  Option<T> is a tuple: <<>> is None and      *)
(* <<x>> is Some(x).  Result<T, E> is modelled the same way where only     *)
(* success or failure matters.                                             *)
(***************************************************************************)
EXTENDS Integers, Sequences, FiniteSets, TLC

\* ------------------------------------------------------------- bounds
\* Longest mods.array the snapshots of SpecRate carry.
MaxArrayLen == 2
\* Most detached post-tick delay tasks alive at once.
MaxSleepers == 1

\* ------------------------------------------------------------- Option
None == <<>>
Some(x) == <<x>>
IsSome(o) == o # None
\* Option::or and Option::or_else (the alternative has no side effect).
Or(a, b) == IF IsSome(a) THEN a ELSE b
\* Option::unwrap_or and as_deref().unwrap_or.
unwrap_or(o, d) == IF IsSome(o) THEN o[1] ELSE d
\* slice::get(0).
get0(a) == IF Len(a) > 0 THEN Some(a[1]) ELSE None

\* ------------------------------------------------------------- snapshot
ModSettings(sc) == [speed_change |-> sc]
ModEntry(rate, sc) == [settings |-> ModSettings(sc), rate |-> rate]
ModsV2(name, array, rate) == [name |-> name, array |-> array, rate |-> rate]
BeatmapV2(artist, title, ver) == [artist |-> artist, title |-> title, version |-> ver]
JsonV2(beatmap, playmods, mods) ==
    [beatmap |-> beatmap, play |-> [mods |-> playmods], mods |-> mods]

\* str::contains: pat occurs in s as a contiguous substring.
contains(s, pat) ==
    \E i \in 1..(Len(s) - Len(pat) + 1) : SubSeq(s, i, i + Len(pat) - 1) = pat

\* Faulty variant of name_fallback: HT/DC is tested before NC/DT.
name_fallback_dt_last(v2) ==
    LET s == unwrap_or(v2.play.mods.name, "")
    IN  IF contains(s, "HT") \/ contains(s, "DC") THEN Some(750)
        ELSE IF contains(s, "NC") \/ contains(s, "DT") THEN Some(1500)
        ELSE Some(1000)

\* The name fallback of extract_rate_from_v2 (the closure of lines 239-244).
name_fallback(v2) ==
    LET s == unwrap_or(v2.play.mods.name, "")
    IN  IF contains(s, "NC") \/ contains(s, "DT") THEN Some(1500)
        ELSE IF contains(s, "HT") \/ contains(s, "DC") THEN Some(750)
        ELSE Some(1000)

\* m.rate.or(m.settings.speed_change) of a ModEntry.
entry_rate(m) == Or(m.rate, m.settings.speed_change)

\* array.as_ref().and_then(|a| a.get(0)).and_then(|m| m.rate.or(...)).
first_entry_rate(array) ==
    LET e == IF IsSome(array) THEN get0(array[1]) ELSE None
    IN  IF IsSome(e) THEN entry_rate(e[1]) ELSE None

\* The same chain on the last entry of the array.
last_entry_rate(array) ==
    LET e == IF IsSome(array) /\ Len(array[1]) > 0
             THEN Some(array[1][Len(array[1])]) ELSE None
    IN  IF IsSome(e) THEN entry_rate(e[1]) ELSE None

\* The closure of lines 235-237 on the root-level mods.
root_rate(mods) ==
    IF IsSome(mods) THEN Or(mods[1].rate, first_entry_rate(mods[1].array)) ELSE None

\* Faulty variants of extract_rate_from_v2: the root-level mods win over play.mods;
\* the last array entry is read instead of the first.
extract_rate_root_first(v2) ==
    Or(Or(root_rate(v2.mods),
          Or(v2.play.mods.rate, first_entry_rate(v2.play.mods.array))),
       name_fallback(v2))

extract_rate_last_entry(v2) ==
    Or(Or(Or(v2.play.mods.rate, last_entry_rate(v2.play.mods.array)),
          IF IsSome(v2.mods)
          THEN Or(v2.mods[1].rate, last_entry_rate(v2.mods[1].array)) ELSE None),
       name_fallback(v2))

\* Lines 228-245: rate.or(first entry).or(root mods).or_else(name).
extract_rate_from_v2(v2) ==
    Or(Or(Or(v2.play.mods.rate, first_entry_rate(v2.play.mods.array)),
          root_rate(v2.mods)),
       name_fallback(v2))

\* format!("{:.2}", raw_rate): sign, integer part, two rounded decimals.
\* A tie in the third decimal goes to the even neighbour.
format_rate(r) ==
    LET a     == IF r < 0 THEN 0 - r ELSE r
        q     == a \div 10
        rem   == a % 10
        h     == IF rem > 5 \/ (rem = 5 /\ q % 2 = 1) THEN q + 1 ELSE q
        whole == h \div 100
        frac  == h % 100
    IN  (IF r < 0 THEN "-" ELSE "") \o ToString(whole) \o "."
            \o (IF frac < 10 THEN "0" ELSE "") \o ToString(frac)

\* Faulty variant of song_label: the label is built only when both parts are
\* non-empty.
song_label_needs_both(artist, title) ==
    IF artist # "" /\ title # "" THEN artist \o " - " \o title ELSE "Unknown Song"

\* song_full of line 157.
song_label(artist, title) ==
    IF artist # "" \/ title # "" THEN artist \o " - " \o title ELSE "Unknown Song"


\* ------------------------------------------------------------- startup
\* resolve_static_root_from_tosu_env: found is whether find_tosu_env gave a
\* path, strict_ok whether from_path loaded it, iter_ok whether
\* from_path_iter could open it, folder the value STATIC_FOLDER_PATH has
\* afterwards (None when unset).  Err is None.
resolve_static_root_from_tosu_env(found, strict_ok, iter_ok, folder) ==
    IF found /\ ~strict_ok /\ ~iter_ok THEN None
    ELSE IF found /\ IsSome(folder)
         THEN Some(IF folder[1].absolute THEN folder[1].path
                   ELSE "env/" \o folder[1].path)
         ELSE Some("overlay")

StaticFolders ==
    {None, Some([path |-> "static", absolute |-> FALSE]),
           Some([path |-> "/static", absolute |-> TRUE])}

\* ------------------------------------------------------------- inputs
\* Bodies /json/v2 answers with.  A body is decoded by serde into JsonV2:
\* beatmap, play and play.mods are required fields, the root mods and every
\* leaf are optional.
StateBody(wellformed, beatmap, play, mods) ==
    [wellformed |-> wellformed, beatmap |-> beatmap, play |-> play, mods |-> mods]

\* r.json::<JsonV2>() of line 149 with the structs of lines 30-47: Ok with
\* the snapshot, or Err with serde's message.
Ok(v) == [ok |-> TRUE, val |-> v]
Err(e) == [ok |-> FALSE, err |-> e]
decode_json(body) ==
    IF ~body.wellformed THEN Err("expected value")
    ELSE IF IsSome(body.play) /\ ~IsSome(body.play[1].mods)
         THEN Err("missing field mods")
    ELSE IF ~IsSome(body.beatmap) THEN Err("missing field beatmap")
    ELSE IF ~IsSome(body.play) THEN Err("missing field play")
    ELSE Ok(JsonV2(body.beatmap[1], body.play[1].mods[1], body.mods))

\* The loop is explored with one beatmap; every shape of its labels is
\* explored by SpecPublish.
LoopBeatmaps == {BeatmapV2(Some("A"), Some("B"), Some("Hard"))}
LoopPlayMods ==
    {ModsV2(None, None, None),
     ModsV2(Some("HDDT"), None, None),
     ModsV2(Some("DT"), None, Some(1504)),
     ModsV2(None, Some(<<ModEntry(None, Some(0))>>), None)}
LoopRootMods == {None, Some(ModsV2(None, None, Some(1500)))}

StateBodies ==
    {StateBody(FALSE, None, None, None)}
    \cup {StateBody(TRUE, Some(b), Some([mods |-> Some(m)]), r) :
            b \in LoopBeatmaps, m \in LoopPlayMods, r \in LoopRootMods}
    \cup {StateBody(TRUE, Some(b), Some([mods |-> None]), r) :
            b \in LoopBeatmaps, r \in LoopRootMods}
    \cup {StateBody(TRUE, Some(b), None, None) : b \in LoopBeatmaps}
    \cup {StateBody(TRUE, None, Some([mods |-> Some(m)]), None) : m \in LoopPlayMods}

\* Chart files: byte sequences.  0xFF never occurs in UTF-8.
ChartX == <<111, 115, 117>>
ChartY == <<111, 115, 117, 33>>
ChartBad == <<255>>
Charts == {<<>>, ChartX, ChartY, ChartBad}

\* String::from_utf8 on the charts above: Ok exactly for all-ASCII bytes.
from_utf8(bytes) == \A i \in 1..Len(bytes) : bytes[i] < 128

\* sha1_smol::Sha1::from(bytes).hexdigest(): a digest, taken to be free of
\* collisions on the charts of the model.
hexdigest(bytes) == [sha1 |-> bytes]

\* What the closure of lines 187-197 ends with.
ComputeOutcomes ==
    {"parse failed", "security_check", "to_notes_merged", "calc_ssr", "ok"}

\* calc.calc_ssr(&notes, raw_rate, 93.0): the engine's SkillsetScores for
\* these notes at this rate.
calc_ssr(notes, rate) ==
    [s \in {"overall", "stamina", "jumpstream", "handstream", "stream",
            "chordjack", "jackspeed", "technical"} |-> <<s, notes, rate>>]

\* MsdOut of lines 203-215.
MsdOut(song, diff, sc, rate) ==
    [song |-> song, diff |-> diff, overall |-> sc.overall, stamina |-> sc.stamina,
     jumpstream |-> sc.jumpstream, handstream |-> sc.handstream,
     stream |-> sc.stream, chordjack |-> sc.chordjack, jacks |-> sc.jackspeed,
     technical |-> sc.technical, rate |-> rate]


\* ------------------------------------------------------------- state
VARIABLES
    pc,          \* where main is: "start", "install", "calc_new", "exited",
                 \* and in the loop "tick", "get_state", "resolve",
                 \* "get_chart", "detect", "compute", "write", "write_data"
    static_root, \* Option<PathBuf> of line 130
    last_sha1,   \* Option<String> of line 141
    last_key,    \* Option<(String, String)> of line 143
    msd,         \* <static_root>/MinaCalcOnOsu/msd.json: None while it does
                 \* not exist, else [complete, doc]
    sleepers,    \* detached tasks spawned by sleep() that still sleep
    v2, song_full, version, raw_rate, rate_str, osu_bytes, sha1, scores,
                 \* the locals of one loop iteration, None until assigned
    log,         \* the message the iteration logged last ("" for none)
    trace,       \* the stages the iteration has invoked, in order
    key0, msd0,  \* last_key and msd as they were when the iteration began
    prev         \* of the last earlier iteration that fingerprinted a chart
                 \* its osu_bytes and raw_rate, and the last log of the last
                 \* earlier iteration that stored a key (None before any)

locals == <<v2, song_full, version, raw_rate, rate_str, osu_bytes, sha1, scores>>
history == <<log, trace, key0, msd0, prev>>
vars == <<pc, static_root, last_sha1, last_key, msd, sleepers, locals, history>>

Init ==
    /\ pc = "start"
    /\ static_root = None
    /\ last_sha1 = None
    /\ last_key = None
    /\ msd = None
    /\ sleepers = 0
    /\ v2 = None /\ song_full = None /\ version = None /\ raw_rate = None
    /\ rate_str = None /\ osu_bytes = None /\ sha1 = None /\ scores = None
    /\ log = "" /\ trace = <<>> /\ key0 = None /\ msd0 = msd /\ prev = None

\* sleep() of line 226: spawn one detached task that sleeps 150 ms.
sleep == sleepers < MaxSleepers /\ sleepers' = sleepers + 1

\* A detached delay task ends.  It touches nothing else.
SleepDone ==
    /\ sleepers > 0
    /\ sleepers' = sleepers - 1
    /\ UNCHANGED <<pc, static_root, last_sha1, last_key, msd, locals, history>>

\* ------------------------------------------------------------- startup
\* Lines 130-131: the static root, or main returns the error, which the
\* runtime prints as it exits.  folders is what STATIC_FOLDER_PATH may hold.
ResolveStaticRootFrom(folders) ==
    /\ pc = "start"
    /\ \E found \in BOOLEAN, strict_ok \in BOOLEAN, iter_ok \in BOOLEAN,
          folder \in folders :
         LET r == resolve_static_root_from_tosu_env(found, strict_ok, iter_ok, folder)
         IN  /\ static_root' = r
             /\ pc' = IF IsSome(r) THEN "install" ELSE "exited"
             /\ log' = IF IsSome(r) THEN log ELSE "Error: loading tosu.env"
    /\ UNCHANGED <<last_sha1, last_key, msd, sleepers, locals, trace, key0, msd0,
                   prev>>

\* The loop is explored from a start without STATIC_FOLDER_PATH: the root
\* only names the directory msd.json is in.
ResolveStaticRoot == ResolveStaticRootFrom({None})

\* Lines 133-135: a failed overlay install is logged and startup goes on.
InstallOverlay ==
    /\ pc = "install"
    /\ \E ok \in BOOLEAN : log' = IF ok THEN log ELSE "overlay install skipped"
    /\ pc' = "calc_new"
    /\ UNCHANGED <<static_root, last_sha1, last_key, msd, sleepers, locals,
                   trace, key0, msd0, prev>>

\* Faulty variant of CalcNew: the engine's error is reported and main enters
\* the loop all the same.
CalcNew_failure_ignored ==
    /\ pc = "calc_new"
    /\ \E ok \in BOOLEAN :
         /\ pc' = "tick"
         /\ log' = IF ok THEN log ELSE "Error: Calc::new"
    /\ last_sha1' = None /\ last_key' = None
    /\ UNCHANGED <<static_root, msd, sleepers, locals, trace, key0, msd0, prev>>

\* Lines 137-143: Calc::new()? and the two guards, both None.
CalcNew ==
    /\ pc = "calc_new"
    /\ \E ok \in BOOLEAN :
         /\ pc' = IF ok THEN "tick" ELSE "exited"
         /\ log' = IF ok THEN log ELSE "Error: Calc::new"
    /\ last_sha1' = None
    /\ last_key' = None
    /\ UNCHANGED <<static_root, msd, sleepers, locals, trace, key0, msd0, prev>>

\* ------------------------------------------------------------- the loop
\* Faulty variant of Tick: the next iteration also begins while the write of
\* the current one is under way.
Tick_overlapping ==
    /\ pc \in {"tick", "write_data"}
    /\ pc' = "get_state"
    /\ v2' = None /\ song_full' = None /\ version' = None /\ raw_rate' = None
    /\ rate_str' = None /\ osu_bytes' = None /\ sha1' = None /\ scores' = None
    /\ log' = "" /\ trace' = <<>> /\ key0' = last_key /\ msd0' = msd
    /\ prev' = IF IsSome(sha1)
               THEN Some([osu_bytes |-> osu_bytes[1], raw_rate |-> raw_rate[1],
                          log |-> IF last_key = key0 /\ prev # None
                                  THEN prev[1].log ELSE log])
               ELSE prev
    /\ UNCHANGED <<static_root, last_sha1, last_key, msd, sleepers>>

\* Line 147: ticker.tick().await begins an iteration with fresh locals.
Tick ==
    /\ pc = "tick"
    /\ pc' = "get_state"
    /\ v2' = None /\ song_full' = None /\ version' = None /\ raw_rate' = None
    /\ rate_str' = None /\ osu_bytes' = None /\ sha1' = None /\ scores' = None
    /\ log' = "" /\ trace' = <<>> /\ key0' = last_key /\ msd0' = msd
    /\ prev' = IF IsSome(sha1)
               THEN Some([osu_bytes |-> osu_bytes[1], raw_rate |-> raw_rate[1],
                          log |-> IF last_key = key0 /\ prev # None
                                  THEN prev[1].log ELSE log])
               ELSE prev
    /\ UNCHANGED <<static_root, last_sha1, last_key, msd, sleepers>>

\* Faulty variant of GetState: after a failed send() the request is made again
\* within the same iteration.
GetState_retries ==
    /\ pc = "get_state"
    /\ trace' = Append(trace, "StateFetcher")
    /\ \E rsp \in {None} \cup {Some(b) : b \in StateBodies} :
         IF rsp = None
         THEN /\ Len(trace) < 2
              /\ log' = "GET /json/v2" /\ pc' = "get_state" /\ v2' = None
              /\ UNCHANGED sleepers
         ELSE IF ~decode_json(rsp[1]).ok
         THEN /\ log' = "parse /json/v2: " \o decode_json(rsp[1]).err
              /\ sleep /\ pc' = "tick" /\ v2' = None
         ELSE /\ v2' = Some(decode_json(rsp[1]).val) /\ pc' = "resolve"
              /\ UNCHANGED <<log, sleepers>>
    /\ UNCHANGED <<static_root, last_sha1, last_key, msd, song_full, version,
                   raw_rate, rate_str, osu_bytes, sha1, scores, key0, msd0, prev>>

\* Faulty variant of GetState: a decode error is propagated with ? and main
\* returns.
GetState_decode_propagates ==
    /\ pc = "get_state"
    /\ trace' = Append(trace, "StateFetcher")
    /\ \E rsp \in {None} \cup {Some(b) : b \in StateBodies} :
         IF rsp = None
         THEN /\ log' = "GET /json/v2" /\ sleep /\ pc' = "tick" /\ v2' = None
         ELSE IF ~decode_json(rsp[1]).ok
         THEN /\ log' = "parse /json/v2: " \o decode_json(rsp[1]).err
              /\ pc' = "exited" /\ v2' = None /\ UNCHANGED sleepers
         ELSE /\ v2' = Some(decode_json(rsp[1]).val) /\ pc' = "resolve"
              /\ UNCHANGED <<log, sleepers>>
    /\ UNCHANGED <<static_root, last_sha1, last_key, msd, song_full, version,
                   raw_rate, rate_str, osu_bytes, sha1, scores, key0, msd0, prev>>

\* Lines 148-151: GET /json/v2 and its decoding.  rsp is None when send()
\* fails, else the body.
GetState ==
    /\ pc = "get_state"
    /\ trace' = Append(trace, "StateFetcher")
    /\ \E rsp \in {None} \cup {Some(b) : b \in StateBodies} :
         IF rsp = None
         THEN /\ log' = "GET /json/v2" /\ sleep /\ pc' = "tick" /\ v2' = None
         ELSE IF ~decode_json(rsp[1]).ok
         THEN /\ log' = "parse /json/v2: " \o decode_json(rsp[1]).err
              /\ sleep /\ pc' = "tick" /\ v2' = None
         ELSE /\ v2' = Some(decode_json(rsp[1]).val) /\ pc' = "resolve"
              /\ UNCHANGED <<log, sleepers>>
    /\ UNCHANGED <<static_root, last_sha1, last_key, msd, song_full, version,
                   raw_rate, rate_str, osu_bytes, sha1, scores, key0, msd0, prev>>

\* Lines 153-161: the labels and the rate.
ResolveRate ==
    /\ pc = "resolve"
    /\ trace' = Append(trace, "RateResolver")
    /\ song_full' = Some(song_label(unwrap_or(v2[1].beatmap.artist, ""),
                                    unwrap_or(v2[1].beatmap.title, "")))
    /\ version' = Some(unwrap_or(v2[1].beatmap.version, ""))
    /\ raw_rate' = Some(unwrap_or(extract_rate_from_v2(v2[1]), 1000))
    /\ rate_str' = Some(format_rate(raw_rate'[1]))
    /\ pc' = "get_chart"
    /\ UNCHANGED <<static_root, last_sha1, last_key, msd, sleepers, v2, osu_bytes,
                   sha1, scores, log, key0, msd0, prev>>

\* Faulty variant of GetChart: an empty body is logged but the iteration goes on.
GetChart_empty_goes_on ==
    /\ pc = "get_chart"
    /\ trace' = Append(trace, "ChartFetcher")
    /\ \E rsp \in {None, Some(None)} \cup {Some(Some(b)) : b \in Charts} :
         IF rsp = None
         THEN /\ log' = "GET .osu failed" /\ pc' = "tick" /\ UNCHANGED osu_bytes
         ELSE IF rsp[1] = None
         THEN /\ log' = "bytes() failed" /\ pc' = "tick" /\ UNCHANGED osu_bytes
         ELSE /\ osu_bytes' = rsp[1]
              /\ pc' = "detect"
              /\ log' = IF rsp[1][1] = <<>> THEN "No bytes from beatmap file" ELSE log
    /\ v2' = None
    /\ UNCHANGED <<static_root, last_sha1, last_key, msd, sleepers, song_full,
                   version, raw_rate, rate_str, sha1, scores, key0, msd0, prev>>

\* Lines 163-168: GET the .osu file.  rsp is None when send() fails,
\* Some(None) when bytes() fails, else the body.  None of the three
\* continue statements calls sleep().  v2 is read for the last time on
\* line 161 and leaves the state here.
GetChart ==
    /\ pc = "get_chart"
    /\ trace' = Append(trace, "ChartFetcher")
    /\ \E rsp \in {None, Some(None)} \cup {Some(Some(b)) : b \in Charts} :
         IF rsp = None
         THEN /\ log' = "GET .osu failed" /\ pc' = "tick" /\ UNCHANGED osu_bytes
         ELSE IF rsp[1] = None
         THEN /\ log' = "bytes() failed" /\ pc' = "tick" /\ UNCHANGED osu_bytes
         ELSE /\ osu_bytes' = rsp[1]
              /\ IF rsp[1][1] = <<>>
                 THEN log' = "No bytes from beatmap file" /\ pc' = "tick"
                 ELSE pc' = "detect" /\ UNCHANGED log
    /\ v2' = None
    /\ UNCHANGED <<static_root, last_sha1, last_key, msd, sleepers, song_full,
                   version, raw_rate, rate_str, sha1, scores, key0, msd0, prev>>


\* Faulty variants of should_skip: the rate comparison is inverted; the rate is not
\* compared.
should_skip_rate_inverted(lsha, lkey, sha, rate) ==
    /\ lsha = Some(sha)
    /\ IsSome(lkey) /\ lkey[1][1] = sha /\ lkey[1][2] # rate

should_skip_sha_only(lsha, lkey, sha, rate) ==
    /\ lsha = Some(sha)
    /\ IsSome(lkey) /\ lkey[1][1] = sha

\* The guard of lines 172-174: the iteration is skipped.
should_skip(lsha, lkey, sha, rate) ==
    /\ lsha = Some(sha)
    /\ IsSome(lkey) /\ lkey[1][1] = sha /\ lkey[1][2] = rate

\* Faulty variant of ChangeDetector: the new key is not stored at this point.
ChangeDetector_key_not_stored ==
    /\ pc = "detect"
    /\ trace' = Append(trace, "ChangeDetector")
    /\ sha1' = Some(hexdigest(osu_bytes[1]))
    /\ pc' = IF should_skip(last_sha1, last_key, sha1'[1], rate_str[1])
             THEN "tick" ELSE "compute"
    /\ UNCHANGED <<static_root, last_sha1, last_key, msd, sleepers, v2, song_full,
                   version, raw_rate, rate_str, osu_bytes, scores, log, key0,
                   msd0, prev>>

\* Faulty variant of ChangeDetector: last_sha1 is assigned only while it is
\* None.
ChangeDetector_sha1_set_once ==
    /\ pc = "detect"
    /\ trace' = Append(trace, "ChangeDetector")
    /\ sha1' = Some(hexdigest(osu_bytes[1]))
    /\ IF should_skip(last_sha1, last_key, sha1'[1], rate_str[1])
       THEN pc' = "tick" /\ UNCHANGED <<last_sha1, last_key>>
       ELSE /\ last_sha1' = IF last_sha1 = None THEN sha1' ELSE last_sha1
            /\ last_key' = Some(<<sha1'[1], rate_str[1]>>)
            /\ pc' = "compute"
    /\ UNCHANGED <<static_root, msd, sleepers, v2, song_full, version, raw_rate,
                   rate_str, osu_bytes, scores, log, key0, msd0, prev>>

\* Lines 170-177: fingerprint, compare, and store the new key at once.
ChangeDetector ==
    /\ pc = "detect"
    /\ trace' = Append(trace, "ChangeDetector")
    /\ sha1' = Some(hexdigest(osu_bytes[1]))
    /\ IF should_skip(last_sha1, last_key, sha1'[1], rate_str[1])
       THEN pc' = "tick" /\ UNCHANGED <<last_sha1, last_key>>
       ELSE /\ last_sha1' = sha1'
            /\ last_key' = Some(<<sha1'[1], rate_str[1]>>)
            /\ pc' = "compute"
    /\ UNCHANGED <<static_root, msd, sleepers, v2, song_full, version, raw_rate,
                   rate_str, osu_bytes, scores, log, key0, msd0, prev>>

\* Lines 180-200: text, parse, security check, notes, calc_ssr.  The parser
\* and the engine are libraries: what they answer is an input.  The engine
\* is reached by the outcomes "calc_ssr" (it fails) and "ok".
ScoreComputer ==
    /\ pc = "compute"
    /\ IF ~from_utf8(osu_bytes[1])
       THEN /\ trace' = Append(trace, "ScoreComputer")
            /\ log' = "invalid UTF8 .osu" /\ pc' = "tick" /\ UNCHANGED scores
       ELSE \E o \in ComputeOutcomes :
            /\ trace' = IF o \in {"calc_ssr", "ok"}
                        THEN trace \o <<"ScoreComputer", "calc_ssr">>
                        ELSE Append(trace, "ScoreComputer")
            /\ IF o = "ok"
               THEN /\ scores' = Some(calc_ssr(osu_bytes[1], raw_rate[1]))
                    /\ pc' = "write" /\ UNCHANGED log
               ELSE log' = "calc_ssr failed" /\ pc' = "tick" /\ UNCHANGED scores
    /\ UNCHANGED <<static_root, last_sha1, last_key, msd, sleepers, v2, song_full,
                   version, raw_rate, rate_str, osu_bytes, sha1, key0, msd0, prev>>

\* The document of lines 203-215.
out == MsdOut(song_full[1], version[1], scores[1], rate_str[1])

\* Faulty variant of WriteOpen: a failed write clears the stored key so that
\* the next iteration writes again.
WriteOpen_failure_clears_key ==
    /\ pc = "write"
    /\ trace' = Append(trace, "ResultPublisher")
    /\ \E ok \in BOOLEAN :
         IF ok
         THEN /\ msd' = Some([complete |-> FALSE, doc |-> out])
              /\ pc' = "write_data" /\ UNCHANGED <<log, sleepers, last_sha1, last_key>>
         ELSE /\ log' = "failed to write msd.json" /\ sleep /\ pc' = "tick"
              /\ last_sha1' = None /\ last_key' = None
              /\ UNCHANGED msd
    /\ UNCHANGED <<static_root, locals, key0, msd0, prev>>

\* write_msd_json, lines 247-252.  fs::write opens the file truncating it
\* and then writes the bytes: WriteOpen is the open, WriteData the write.
\* Either can fail; both ways line 222 calls sleep().
WriteOpen ==
    /\ pc = "write"
    /\ trace' = Append(trace, "ResultPublisher")
    /\ \E ok \in BOOLEAN :
         IF ok
         THEN /\ msd' = Some([complete |-> FALSE, doc |-> out])
              /\ pc' = "write_data" /\ UNCHANGED <<log, sleepers>>
         ELSE /\ log' = "failed to write msd.json" /\ sleep /\ pc' = "tick"
              /\ UNCHANGED msd
    /\ UNCHANGED <<static_root, last_sha1, last_key, locals, key0, msd0, prev>>

WriteData ==
    /\ pc = "write_data"
    /\ \E ok \in BOOLEAN :
         /\ msd' = Some([complete |-> ok, doc |-> out])
         /\ log' = IF ok THEN "msd.json updated" ELSE "failed to write msd.json"
    /\ sleep
    /\ pc' = "tick"
    /\ UNCHANGED <<static_root, last_sha1, last_key, locals, trace, key0, msd0, prev>>

Next ==
    \/ ResolveStaticRoot \/ InstallOverlay \/ CalcNew
    \/ Tick \/ GetState \/ ResolveRate \/ GetChart \/ ChangeDetector
    \/ ScoreComputer \/ WriteOpen \/ WriteData \/ SleepDone

Spec == Init /\ [][Next]_vars

\* The interval of line 125 fires again and again: a pending
\* ticker.tick().await of line 147 completes.
SpecLive == Init /\ [][Next]_vars /\ WF_vars(Tick)

\* ------------------------------------------------------------- RateResolver alone
\* Every shape of snapshot the resolver distinguishes: each rate source
\* absent or present, arrays absent, empty or up to MaxArrayLen long.
EntryChoices == {ModEntry(r, sc) : r \in {None, Some(1250)}, sc \in {None, Some(900)}}
ArrayChoices ==
    {None} \cup {Some(a) : a \in UNION {[1..n -> EntryChoices] : n \in 0..MaxArrayLen}}
PlayNames == {None, Some("HD"), Some("HDDT"), Some("NC"), Some("HT"), Some("DC"),
              Some("HTDT")}
Snapshots ==
    {JsonV2(BeatmapV2(None, None, None), ModsV2(n, a, r), m) :
        n \in PlayNames, a \in ArrayChoices, r \in {None, Some(1100), Some(0)},
        m \in {None} \cup {Some(ModsV2(rn, ra, rr)) :
                 rn \in {None, Some("DT")}, ra \in ArrayChoices,
                 rr \in {None, Some(1300)}}}

InitRate ==
    /\ pc = "resolve"
    /\ static_root = Some("overlay")
    /\ last_sha1 = None /\ last_key = None /\ msd = None /\ sleepers = 0
    /\ v2 \in {Some(s) : s \in Snapshots}
    /\ song_full = None /\ version = None /\ raw_rate = None
    /\ rate_str = None /\ osu_bytes = None /\ sha1 = None /\ scores = None
    /\ log = "" /\ trace = <<"StateFetcher">> /\ key0 = None /\ msd0 = None
    /\ prev = None

NextRate == ResolveRate

SpecRate == InitRate /\ [][NextRate]_vars

\* One iteration from line 153 on, for every shape of the labels, begun
\* either before anything was published or after an earlier iteration
\* published StaleDoc for ChartY at rate 1.0.
PublishBeatmaps ==
    {BeatmapV2(a, t, v) : a \in {None, Some(""), Some("A")},
                          t \in {None, Some(""), Some("B")},
                          v \in {None, Some("Hard")}}
StaleDoc == MsdOut("Old - Song", "Easy", calc_ssr(ChartY, 1000), "1.00")
StaleKey == <<hexdigest(ChartY), "1.00">>

InitPublish ==
    /\ pc = "resolve"
    /\ static_root = Some("overlay")
    /\ \/ /\ last_sha1 = None /\ last_key = None /\ msd = None /\ prev = None
       \/ /\ last_sha1 = Some(StaleKey[1]) /\ last_key = Some(StaleKey)
          /\ msd = Some([complete |-> TRUE, doc |-> StaleDoc])
          /\ prev = Some([osu_bytes |-> ChartY, raw_rate |-> 1000,
                          log |-> "msd.json updated"])
    /\ sleepers = 0
    /\ v2 \in {Some(JsonV2(b, m, None)) : b \in PublishBeatmaps, m \in LoopPlayMods}
    /\ song_full = None /\ version = None /\ raw_rate = None
    /\ rate_str = None /\ osu_bytes = None /\ sha1 = None /\ scores = None
    /\ log = "" /\ trace = <<"StateFetcher">> /\ key0 = last_key /\ msd0 = msd

NextPublish ==
    \/ ResolveRate \/ GetChart \/ ChangeDetector \/ ScoreComputer
    \/ WriteOpen \/ WriteData

SpecPublish == InitPublish /\ [][NextPublish]_vars



\* ------------------------------------------------------------- properties
InTrace(stage) == \E i \in 1..Len(trace) : trace[i] = stage
Times(stage) == Cardinality({i \in 1..Len(trace) : trace[i] = stage})
\* The iteration has passed line 170 and holds this (fingerprint, rate_str).
Fingerprinted == IsSome(sha1)
Pair == <<sha1[1], rate_str[1]>>
IterationOver == pc = "tick"

FetchFailureLogs ==
    {"GET /json/v2", "parse /json/v2: expected value",
     "parse /json/v2: missing field mods", "parse /json/v2: missing field beatmap",
     "parse /json/v2: missing field play",
     "GET .osu failed", "bytes() failed", "No bytes from beatmap file"}
ContentFailureLogs == {"invalid UTF8 .osu", "calc_ssr failed"}
WriteFailureLog == "failed to write msd.json"

\* C1 (as claimed): an iteration that ends in a content-stage failure
\* leaves last_key as it was when the iteration began, and a later
\* iteration that fingerprints the same bytes at the same formatted rate,
\* with that key still stored, runs ScoreComputer again.
C1_ContentFailureKeepsKey ==
    /\ (IterationOver /\ log \in ContentFailureLogs) => last_key = key0
    /\ (/\ IterationOver /\ Fingerprinted /\ prev # None
        /\ prev[1].log \in ContentFailureLogs
        /\ prev[1].osu_bytes = osu_bytes[1]
        /\ format_rate(prev[1].raw_rate) = rate_str[1])
       => InTrace("ScoreComputer")

\* C2: an iteration whose (fingerprint, rate_str) equals the key stored
\* when it began ends at the ChangeDetector: no ScoreComputer, no
\* ResultPublisher, last_key and msd.json as they were.  So ScoreComputer
\* runs only in iterations whose pair differs from the stored key, at most
\* once per iteration, and an iteration with the bytes and the rate of the
\* fingerprinting iteration before it runs neither stage.
C2_EqualKeySkips ==
    /\ (Fingerprinted /\ key0 = Some(Pair))
       => /\ IterationOver
          /\ ~InTrace("ScoreComputer") /\ ~InTrace("ResultPublisher")
          /\ last_key = key0 /\ msd = msd0
    /\ Times("ScoreComputer") <= 1 /\ Times("ResultPublisher") <= 1
    /\ (/\ Fingerprinted /\ prev # None
        /\ prev[1].osu_bytes = osu_bytes[1] /\ prev[1].raw_rate = raw_rate[1])
       => ~InTrace("ScoreComputer") /\ ~InTrace("ResultPublisher")

C2_Witness ==
    /\ IterationOver /\ Fingerprinted /\ key0 = Some(Pair)
    /\ prev # None /\ prev[1].osu_bytes = osu_bytes[1]
    /\ prev[1].raw_rate = raw_rate[1]
    /\ prev[1].log = "msd.json updated"
    /\ trace = <<"StateFetcher", "RateResolver", "ChartFetcher", "ChangeDetector">>

\* C3 (as claimed): of two successive fingerprinting iterations with the
\* same bytes and different resolved rates, the second runs ScoreComputer.
C3_AnyRateChangeRecomputes ==
    (/\ IterationOver /\ Fingerprinted /\ prev # None
     /\ prev[1].osu_bytes = osu_bytes[1] /\ prev[1].raw_rate # raw_rate[1])
    => InTrace("ScoreComputer")

\* C3 (amended): of two successive fingerprinting iterations with the same
\* bytes whose rates differ in their two-decimal rendering, the second runs
\* ScoreComputer.
C3_FormattedRateChangeRecomputes ==
    (/\ IterationOver /\ Fingerprinted /\ prev # None
     /\ prev[1].osu_bytes = osu_bytes[1]
     /\ format_rate(prev[1].raw_rate) # rate_str[1])
    => InTrace("ScoreComputer")

C3_Witness ==
    /\ IterationOver /\ Fingerprinted /\ prev # None
    /\ prev[1].osu_bytes = osu_bytes[1]
    /\ prev[1].raw_rate = 1000 /\ raw_rate = Some(1500)
    /\ prev[1].log = "msd.json updated"
    /\ InTrace("ScoreComputer")

\* C4: an iteration that ends in a fetch-stage failure has computed no
\* fingerprint, has run neither ChangeDetector, ScoreComputer nor
\* ResultPublisher, and leaves last_key and msd.json as they were.
C4_FetchFailureChangesNothing ==
    log \in FetchFailureLogs
    => /\ IterationOver
       /\ ~Fingerprinted
       /\ ~InTrace("ChangeDetector") /\ ~InTrace("ScoreComputer")
       /\ ~InTrace("ResultPublisher")
       /\ last_key = key0 /\ msd = msd0

C4_Witness ==
    /\ log = "No bytes from beatmap file"
    /\ osu_bytes = Some(<<>>)
    /\ key0 # None
    /\ msd # None /\ msd[1].complete /\ msd = msd0

\* C5: when the write of msd.json fails, last_key already is the
\* iteration's (fingerprint, rate_str); while that key stays stored, an
\* iteration with the same bytes and formatted rate runs neither
\* ScoreComputer nor ResultPublisher, and ResultPublisher runs only in an
\* iteration whose pair differs from the key stored when it began.
C5_WriteFailureIsNotRetried ==
    /\ log = WriteFailureLog
       => /\ Fingerprinted /\ last_key = Some(Pair) /\ key0 # last_key
          /\ InTrace("calc_ssr")
    /\ (/\ Fingerprinted /\ prev # None /\ prev[1].log = WriteFailureLog
        /\ key0 = Some(Pair))
       => /\ IterationOver /\ msd = msd0
          /\ ~InTrace("ScoreComputer") /\ ~InTrace("ResultPublisher")
    /\ InTrace("ResultPublisher") => key0 # Some(Pair)

C5_Witness ==
    /\ IterationOver /\ Fingerprinted /\ prev # None
    /\ prev[1].log = WriteFailureLog /\ key0 = Some(Pair)
    /\ prev[1].osu_bytes = osu_bytes[1]
    /\ (msd = None \/ ~msd[1].complete)


\* The snapshot has been resolved and is still at hand.
Resolved == pc = "get_chart" /\ IsSome(v2)
\* The first entry of a mods structure's array, if any.
FirstEntry(m) ==
    IF m.array = None \/ Len(m.array[1]) = 0 THEN None ELSE Some(m.array[1][1])
\* The six explicit sources of a snapshot, in the order of the precedence.
Sources(s) ==
    LET pe == FirstEntry(s.play.mods)
        re == IF s.mods = None THEN None ELSE FirstEntry(s.mods[1])
    IN  << s.play.mods.rate,
           IF pe = None THEN None ELSE pe[1].rate,
           IF pe = None THEN None ELSE pe[1].settings.speed_change,
           IF s.mods = None THEN None ELSE s.mods[1].rate,
           IF re = None THEN None ELSE re[1].rate,
           IF re = None THEN None ELSE re[1].settings.speed_change >>
\* What the mod name alone stands for.
NameRate(s) ==
    LET n == IF s.play.mods.name = None THEN "" ELSE s.play.mods.name[1]
    IN  IF contains(n, "DT") \/ contains(n, "NC") THEN 1500
        ELSE IF contains(n, "HT") \/ contains(n, "DC") THEN 750
        ELSE 1000
FirstPresent(src, fallback) ==
    IF \E i \in 1..Len(src) : src[i] # None
    THEN LET i == CHOOSE i \in 1..Len(src) :
                    src[i] # None /\ \A j \in 1..(i - 1) : src[j] = None
         IN  src[i][1]
    ELSE fallback

\* C6: a snapshot with play.mods.rate resolves to exactly that value,
\* whatever the arrays, the root-level mods and the name hold.
C6_PrimaryRateWins ==
    (Resolved /\ v2[1].play.mods.rate # None) => raw_rate = v2[1].play.mods.rate

C6_Witness ==
    /\ Resolved /\ raw_rate = Some(1100)
    /\ v2[1].play.mods.rate = Some(1100)
    /\ v2[1].play.mods.name = Some("HDDT")
    /\ Sources(v2[1]) = <<Some(1100), Some(1250), Some(900), Some(1300),
                          Some(1250), Some(900)>>

\* C7: the resolved rate is the first present source in the order
\* play.mods.rate, first play.mods entry's rate, its speed_change,
\* mods.rate, first mods entry's rate, its speed_change, name fallback.
C7_Precedence ==
    Resolved => raw_rate = Some(FirstPresent(Sources(v2[1]), NameRate(v2[1])))

C7_Witness ==
    /\ Resolved /\ raw_rate = Some(1300)
    /\ v2[1].play.mods.rate = None
    /\ v2[1].play.mods.array # None /\ Len(v2[1].play.mods.array[1]) = 2
    /\ v2[1].play.mods.array[1][1] = ModEntry(None, None)
    /\ v2[1].play.mods.array[1][2] = ModEntry(Some(1250), Some(900))
    /\ v2[1].play.mods.name = Some("HT")
    /\ v2[1].mods # None /\ v2[1].mods[1].rate = Some(1300)
    /\ FirstEntry(v2[1].mods[1]) = Some(ModEntry(Some(1250), None))

\* C8: with none of the six explicit sources present the rate is 1.5 for a
\* name holding DT or NC, else 0.75 for one holding HT or DC, else 1.0.
C8_NameFallback ==
    (Resolved /\ \A i \in 1..6 : Sources(v2[1])[i] = None)
    => raw_rate = Some(NameRate(v2[1]))

C8_Witness ==
    /\ Resolved /\ \A i \in 1..6 : Sources(v2[1])[i] = None
    /\ v2[1].play.mods.name = Some("HTDT") /\ raw_rate = Some(1500)
    /\ v2[1].mods # None /\ v2[1].mods[1].name = Some("DT")

\* C9 (as claimed): no iteration is given up for want of a mods structure:
\* a decodable answer without play.mods still gets a rate.
C9_ResolutionNeverFailsACycle ==
    log \notin {"parse /json/v2: missing field mods",
                "parse /json/v2: missing field play"}

\* C10 (as claimed): the rate the engine is called with, and the rate of
\* the document handed to the publisher, is greater than zero.
C10_RatePositive ==
    (InTrace("calc_ssr") \/ InTrace("ResultPublisher")) => raw_rate[1] > 0


LoopPcs == {"tick", "get_state", "resolve", "get_chart", "detect", "compute",
            "write", "write_data"}
AllFailureLogs == FetchFailureLogs \cup ContentFailureLogs \cup {WriteFailureLog}

StaysInLoop == (pc \in LoopPcs) => (pc' \in LoopPcs)

\* C11: once in the loop main never leaves it; whatever stage failed, the
\* iteration is over, main waits for the tick, and the next iteration
\* starts; no state of the loop is without a next step.
C11_LoopNeverStops ==
    /\ [][StaysInLoop]_vars
    /\ [](log \in AllFailureLogs => IterationOver)
    /\ [](pc \in LoopPcs => ENABLED Next)
    /\ (IterationOver /\ log \in AllFailureLogs) ~> (pc = "get_state")

C11_Witness ==
    /\ pc = "get_state" /\ log = "" /\ trace = <<>>
    /\ prev # None /\ prev[1].log = WriteFailureLog
    /\ msd # None /\ ~msd[1].complete


\* C12: whoever reads msd.json, at any moment, finds a complete document,
\* the previous one or the new one, never a truncated or partly written file.
C12_ReaderSeesCompleteDocument == msd = None \/ msd[1].complete


\* What the claim says the song and diff of a snapshot's beatmap are.
ClaimedSong(b) ==
    LET artist == IF b.artist = None THEN "" ELSE b.artist[1]
        title  == IF b.title = None THEN "" ELSE b.title[1]
    IN  IF artist = "" /\ title = "" THEN "Unknown Song"
        ELSE artist \o " - " \o title
ClaimedDiff(b) == IF b.version = None THEN "" ELSE b.version[1]

\* The labels and the rate the iteration holds once line 161 is passed are
\* those of its snapshot.
LabelsOfSnapshot ==
    Resolved =>
        /\ song_full = Some(ClaimedSong(v2[1].beatmap))
        /\ version = Some(ClaimedDiff(v2[1].beatmap))
        /\ rate_str = Some(format_rate(raw_rate[1]))
        /\ (v2[1].beatmap = BeatmapV2(Some("A"), Some("B"), Some("Hard"))
              /\ raw_rate = Some(1500)
            => song_full = Some("A - B") /\ version = Some("Hard")
               /\ rate_str = Some("1.50"))

\* The document written is made of the iteration's labels, of its rate_str,
\* and of what the engine answered for its chart at its raw_rate.
DocOfThisIteration ==
    log = "msd.json updated" =>
        LET sc == calc_ssr(osu_bytes[1], raw_rate[1])
        IN  msd = Some([complete |-> TRUE,
                        doc |-> [song |-> song_full[1], diff |-> version[1],
                                 rate |-> format_rate(raw_rate[1]),
                                 overall |-> sc.overall, stamina |-> sc.stamina,
                                 jumpstream |-> sc.jumpstream,
                                 handstream |-> sc.handstream,
                                 stream |-> sc.stream, chordjack |-> sc.chordjack,
                                 jacks |-> sc.jackspeed,
                                 technical |-> sc.technical]])

\* From line 162 to the end of the iteration the labels and the rate stay
\* as resolved, and from line 170 on the chart stays as fetched.
LocalsKept ==
    /\ pc \in {"get_chart", "detect", "compute", "write", "write_data"}
         => UNCHANGED <<song_full, version, raw_rate, rate_str>>
    /\ pc \in {"detect", "compute", "write", "write_data"} => UNCHANGED osu_bytes

\* C13: the published document is assembled from the same iteration's
\* snapshot and engine output: song is "<artist> - <title>" when either is
\* non-empty and "Unknown Song" otherwise, diff is the version or empty,
\* rate the two-decimal rendering of the rate given to the engine, and the
\* eight scores are the engine's.
C13_PublishedFromThisCycle ==
    /\ []LabelsOfSnapshot
    /\ []DocOfThisIteration
    /\ [][LocalsKept]_vars

C13_Witness ==
    /\ log = "msd.json updated"
    /\ msd0 = Some([complete |-> TRUE, doc |-> StaleDoc])
    /\ msd[1].doc.song = " - B" /\ msd[1].doc.diff = ""
    /\ msd[1].doc.rate = "1.50" /\ raw_rate = Some(1504)
    /\ msd[1].doc.jacks = <<"jackspeed", ChartX, 1504>>


StartupErrors == {"Error: loading tosu.env", "Error: Calc::new"}

\* C14: a failed engine initialisation or an unreadable tosu.env ends main
\* before the first tick: nothing was requested, the engine computed
\* nothing, msd.json was not written, and no step follows.  A failed overlay
\* install alone does not end main.
C14_StartupFailureEndsMain ==
    /\ log \in StartupErrors => pc = "exited"
    /\ pc = "exited" =>
         /\ log \in StartupErrors
         /\ log = "Error: loading tosu.env" <=> static_root = None
         /\ trace = <<>> /\ prev = None /\ key0 = None
         /\ locals = <<None, None, None, None, None, None, None, None>>
         /\ last_sha1 = None /\ last_key = None /\ msd = None /\ sleepers = 0
         /\ ~ENABLED Next
    /\ log = "overlay install skipped" => pc \in {"calc_new", "tick"}

C14_Witness ==
    /\ pc = "exited" /\ log = "Error: Calc::new" /\ static_root = Some("overlay")


StageOrder == <<"StateFetcher", "RateResolver", "ChartFetcher", "ChangeDetector",
                "ScoreComputer", "ResultPublisher">>
IsStage(x) == x # "calc_ssr"
StagesRun == SelectSeq(trace, IsStage)

\* C15: within one iteration the stages run in the order state fetch, rate
\* resolution, chart fetch, change detection, score computation,
\* publication, each at most once; the chart is requested only after the
\* state was decoded, the ScoreComputer runs only on a non-empty chart found
\* changed, the ResultPublisher only after the engine answered in this
\* iteration, and a stage that failed ends the iteration.
C15_StagesInOrderOnce ==
    /\ \E n \in 0..Len(StageOrder) : StagesRun = SubSeq(StageOrder, 1, n)
    /\ pc = "get_chart" => IsSome(v2)
    /\ InTrace("ChartFetcher") => IsSome(song_full) /\ IsSome(raw_rate)
    /\ InTrace("ScoreComputer") =>
         /\ IsSome(osu_bytes) /\ osu_bytes[1] # <<>>
         /\ Fingerprinted /\ sha1[1] = hexdigest(osu_bytes[1])
         /\ key0 # Some(Pair)
    /\ InTrace("ResultPublisher") =>
         /\ InTrace("calc_ssr")
         /\ scores = Some(calc_ssr(osu_bytes[1], raw_rate[1]))
    /\ InTrace("calc_ssr") => InTrace("ScoreComputer")
    /\ log \in AllFailureLogs => IterationOver

C15_Witness ==
    /\ IterationOver /\ log = "msd.json updated"
    /\ trace = <<"StateFetcher", "RateResolver", "ChartFetcher", "ChangeDetector",
                 "ScoreComputer", "calc_ssr", "ResultPublisher">>
    /\ key0 # None


\* A step of main that begins an iteration.
BeginsIteration == pc # "get_state" /\ pc' = "get_state" /\ trace' = <<>>
\* A step in which a detached delay task ends.
TaskEnds == sleepers' < sleepers

OneCycleAtATime ==
    /\ BeginsIteration => IterationOver
    /\ IterationOver =>
         BeginsIteration \/ UNCHANGED <<pc, static_root, last_sha1, last_key, msd,
                                        locals, history>>
    /\ pc \in LoopPcs \ {"tick"} /\ ~TaskEnds =>
         /\ pc' # pc /\ pc' \in LoopPcs \ {"get_state"}
         /\ UNCHANGED <<key0, msd0, prev>>
    /\ TaskEnds =>
         UNCHANGED <<pc, static_root, last_sha1, last_key, msd, locals, history>>
    /\ last_sha1' # last_sha1 \/ last_key' # last_key \/ msd' # msd => ~TaskEnds

\* C16: an iteration begins only when the one before it is over, the work
\* of an iteration is done between its tick and the next, one step of main
\* at a time; the delay tasks spawned by sleep() end without reading or
\* changing the stored key and msd.json.
C16_OneCycleAtATime == [][OneCycleAtATime]_vars

C16_Witness ==
    /\ sleepers > 0 /\ pc = "write_data" /\ prev # None /\ key0 # None
    /\ msd0 # None /\ msd0[1].complete /\ ~msd[1].complete


\* A step that writes msd.json leaves the key as it is, and the key is the
\* fingerprint of the chart the written scores are for, with the written rate.
WriteUnderStoredKey ==
    msd' # msd =>
        /\ last_key' = last_key
        /\ msd'[1].doc.overall[2] = osu_bytes[1]
        /\ last_key = Some(<<hexdigest(msd'[1].doc.overall[2]), msd'[1].doc.rate>>)
\* Only lines 176-177 change the key, and never to None.
KeySetByDetectorOnly ==
    /\ last_key' # last_key =>
         /\ pc = "detect" /\ pc' = "compute"
         /\ last_key' = Some(<<hexdigest(osu_bytes[1]), rate_str[1]>>)
    /\ last_key # None => last_key' # None
\* While no key is stored no iteration has come to line 170.
KeyAbsentBeforeDetector ==
    last_key = None => prev = None /\ ~Fingerprinted /\ ~InTrace("ChangeDetector")
\* Once an iteration has passed line 177 a key is stored.
KeyPresentAfterDetector ==
    prev # None \/ Fingerprinted => last_key # None

\* C17: whenever msd.json is written the stored key is (fingerprint of the
\* chart that was scored, rate of the written document); only the
\* ChangeDetector step changes the key; the key is absent only before the
\* first iteration that reaches the detector and is never absent again.
C17_KeyMatchesWhatIsWritten ==
    /\ [][WriteUnderStoredKey /\ KeySetByDetectorOnly]_vars
    /\ [](KeyAbsentBeforeDetector /\ KeyPresentAfterDetector)

C17_Witness ==
    /\ log = "msd.json updated" /\ msd[1].complete
    /\ last_key = Some(<<hexdigest(msd[1].doc.overall[2]), msd[1].doc.rate>>)
    /\ key0 # None /\ key0 # last_key /\ msd0 # None /\ msd0[1].doc # msd[1].doc


\* last_sha1 and last_key are both None or hold the same fingerprint.
FingerprintsAgree ==
    \/ last_sha1 = None /\ last_key = None
    \/ IsSome(last_sha1) /\ IsSome(last_key) /\ last_sha1[1] = last_key[1][1]
\* What line 170 is about to compute, paired with the rate.
PairAtDetector == <<hexdigest(osu_bytes[1]), rate_str[1]>>

\* C18: in every state last_sha1 is the first component of last_key (both
\* None, or the same fingerprint), so the guard of lines 172-174 skips
\* exactly when the stored key is the iteration's (fingerprint, rate_str).
C18_GuardIsKeyEquality ==
    /\ FingerprintsAgree
    /\ pc = "detect" =>
         (should_skip(last_sha1, last_key, PairAtDetector[1], PairAtDetector[2])
            <=> last_key = Some(PairAtDetector))
    /\ Fingerprinted =>
         ((IterationOver /\ ~InTrace("ScoreComputer")) <=> key0 = Some(Pair))

C18_Witness ==
    /\ pc = "detect" /\ last_key = Some(PairAtDetector)
    /\ last_sha1 = Some(PairAtDetector[1])
    /\ prev # None /\ prev[1].osu_bytes = osu_bytes[1] /\ prev[1].raw_rate = 1504
    /\ raw_rate = Some(1500)

====
